---- MODULE Spec2Model ----
(***************************************************************************)
(* Model of lib/my_picar_utils.py: PicarHardwareInterface (the command     *)
(* dispatcher), MyPicarController (the pose regulator) and                 *)
(* PicarUnitConverter.                                                     *)
(*                                                                         *)
(* Numbers handed to the dispatcher (speed, steer, angles) are fixed-point *)
(* values counted in units of 1/Den, so that fractional inputs and the     *)
(* truncation int(...) are represented.  Numbers of the controller and the *)
(* converter are exact rationals <<n, d>>.                                 *)
(***************************************************************************)
EXTENDS Integers, Sequences, FiniteSets, TLC

VARIABLES hw, last, last_drive, ctl, ctl_last, conv, conv_last

vars == <<hw, last, last_drive, ctl, ctl_last, conv, conv_last>>

hw_vars == <<hw, last, last_drive>>
ctl_vars == <<ctl, ctl_last>>
conv_vars == <<conv, conv_last>>

(***************************************************************************)
(* Bounds of the model.                                                    *)
(***************************************************************************)
Den == 2
MaxSpeed == 2
MaxSteer == 1
MaxCalls == 2

(***************************************************************************)
(* Program constants: the defaults of the signatures.                      *)
(***************************************************************************)
default_max_turn == 40
default_overshoot == 10
default_delay_ms == 50

Abs(x) == IF x < 0 THEN -x ELSE x

(***************************************************************************)
(* Inputs.                                                                 *)
(***************************************************************************)
Speeds == (0..MaxSpeed) \cup {-1, -MaxSpeed}
Steers == (-MaxSteer..MaxSteer) \cup {(default_max_turn + 1) * Den}
ValidDirections == {-1, 0, 1}
Directions == ValidDirections \cup {7}
StraightAngles == {88 * Den, 90 * Den}
Overshoots == {default_overshoot * Den, 5 * Den}
Delays == {default_delay_ms, 0}
DriveDirections == {"forward", "backward"}

(***************************************************************************)
(* The actuator backend (Front_Wheels / Back_Wheels or their virtual       *)
(* analogs).  Every primitive appends itself to the log of backend calls   *)
(* issued by the operation in progress.                                    *)
(***************************************************************************)
Call(f, a) == [f |-> f, a |-> a]

Log(h, f, a) == [h EXCEPT !.calls = Append(@, Call(f, a))]

Clamp(x, lo, hi) == IF x < lo THEN lo ELSE IF x > hi THEN hi ELSE x

\* The backend as its constructors leave it.  The drive direction it starts
\* in is not fixed by the dispatcher: dir0 is either one.
Backend(straight, dir0) ==
    [straight_angle |-> straight, max_turn |-> default_max_turn * Den,
     fw_ready |-> FALSE, bw_ready |-> FALSE,
     fw_angle |-> straight, bw_dir |-> dir0, bw_speed |-> 0,
     steering |-> <<>>, speed |-> <<>>,
     calls |-> <<>>, raised |-> "none"]

fw_ready(h) == [Log(h, "fw_ready", 0) EXCEPT !.fw_ready = TRUE]

bw_ready(h) == [Log(h, "bw_ready", 0) EXCEPT !.bw_ready = TRUE]

fw_turn(h, angle) ==
    [Log(h, "turn", angle) EXCEPT
        !.fw_angle = Clamp(angle, h.straight_angle - h.max_turn,
                                  h.straight_angle + h.max_turn)]

fw_turn_straight(h) ==
    [Log(h, "turn_straight", 0) EXCEPT !.fw_angle = h.straight_angle]

bw_forward(h) == [Log(h, "forward", 0) EXCEPT !.bw_dir = "forward"]

bw_backward(h) == [Log(h, "backward", 0) EXCEPT !.bw_dir = "backward"]

bw_stop(h) == [Log(h, "stop", 0) EXCEPT !.bw_speed = 0]

bw_set_speed(h, v) == [Log(h, "set_speed", v) EXCEPT !.bw_speed = v]

sleep(h, delay) == Log(h, "wait", delay)

(***************************************************************************)
(* PicarHardwareInterface.                                                 *)
(***************************************************************************)
\* __init__: max_turn is stored on the front wheels, both subsystems are
\* readied and the back wheels are set forward.
init(straight, dir0, max_turn) ==
    bw_forward(bw_ready(fw_ready(
        [Backend(straight, dir0) EXCEPT !.max_turn = max_turn])))

\* Start of a call on the interface: the call log and the exception slot
\* describe the call in progress.
Begin(h) == [h EXCEPT !.calls = <<>>, !.raised = "none"]

turn_wheels(h, steer) == fw_turn(h, steer + h.straight_angle)

\* Faulty variant of turn_wheels_straight: the return swing is left out.
turn_wheels_straight_no_return(h, overshoot, delay) ==
    LET h1 == turn_wheels(h, overshoot)
        h2 == sleep(h1, delay)
        h3 == sleep(h2, delay)
        h4 == fw_turn_straight(h3)
    IN  [h4 EXCEPT !.steering = <<0>>]

turn_wheels_straight(h, overshoot, delay) ==
    LET h1 == turn_wheels(h, overshoot)
        h2 == sleep(h1, delay)
        h3 == turn_wheels(h2, -overshoot)
        h4 == sleep(h3, delay)
        h5 == fw_turn_straight(h4)
    IN  [h5 EXCEPT !.steering = <<0>>]

\* Faulty variant of stop_motors: it also straightens the wheels.
stop_motors_and_straighten(h) ==
    [bw_stop(fw_turn_straight(h)) EXCEPT !.speed = <<0>>]

stop_motors(h) == [bw_stop(h) EXCEPT !.speed = <<0>>]

\* Faulty variant of unsigned_speed: rounds to nearest instead of truncating.
unsigned_speed_rounded(speed) == (Abs(speed) + (Den \div 2)) \div Den

\* int(abs(speed)): the magnitude, truncated to a whole number.
unsigned_speed(speed) == Abs(speed) \div Den

\* int(steer): truncation toward zero, as a fixed-point value.
int_steer(steer) ==
    IF steer < 0 THEN -((-steer) \div Den) * Den ELSE (steer \div Den) * Den

\* self.halt(): PicarHardwareInterface defines no such method, so the
\* attribute lookup raises before anything is sent to the backend.
halt(h) == [h EXCEPT !.raised = "AttributeError"]

\* Faulty variant of set_direction: direction 0 resets the drive to forward.
set_direction_zero_forward(h, direction) ==
    IF direction = 1 THEN bw_forward(h)
    ELSE IF direction = -1 THEN bw_backward(h)
    ELSE IF direction = 0 THEN bw_forward(h)
    ELSE halt(h)

\* "Set back wheel direction"
set_direction(h, direction) ==
    IF direction = 1 THEN bw_forward(h)
    ELSE IF direction = -1 THEN bw_backward(h)
    ELSE IF direction = 0 THEN h
    ELSE halt(h)

\* "Set picar steering angle": the test is on the steer argument itself.
set_steering(h, steer) ==
    IF steer = 0
    THEN turn_wheels_straight(h, default_overshoot * Den, default_delay_ms)
    ELSE turn_wheels(h, steer)

\* "Set picar speed"
set_speed(h, speed) ==
    IF speed = 0 THEN stop_motors(h) ELSE bw_set_speed(h, speed)

\* Faulty variant of apply_controls: the speed is set before the direction.
apply_controls_speed_first(h, speed, steer, direction) ==
    LET spd == unsigned_speed(speed)
        h1  == set_speed(h, spd)
        h2  == set_direction(h1, direction)
    IN  IF h2.raised # "none" THEN h2 ELSE set_steering(h2, steer)

apply_controls(h, speed, steer, direction) ==
    LET steer_angle == direction * int_steer(steer)   \* computed, never used
        spd == unsigned_speed(speed)
        h1  == set_direction(h, direction)
    IN  IF h1.raised # "none"
        THEN h1
        ELSE set_speed(set_steering(h1, steer), spd)

(***************************************************************************)
(* Operations of the dispatcher.  last records the call just made;         *)
(* last_drive records the direction argument of the most recent            *)
(* apply_controls call that asked for forward (1) or backward (-1), and is *)
(* 0 while there has been none.                                            *)
(***************************************************************************)
Op(name, speed, steer, direction, overshoot, delay) ==
    [name |-> name, speed |-> speed, steer |-> steer, direction |-> direction,
     overshoot |-> overshoot, delay |-> delay]

HwInit ==
    /\ \E s \in StraightAngles, d0 \in DriveDirections :
          hw = init(s, d0, default_max_turn * Den)
    /\ last = Op("init", 0, 0, 0, 0, 0)
    /\ last_drive = 0

TurnWheels(steer) ==
    /\ hw' = turn_wheels(Begin(hw), steer)
    /\ last' = Op("turn_wheels", 0, steer, 0, 0, 0)
    /\ UNCHANGED <<last_drive, ctl_vars, conv_vars>>

TurnWheelsStraight(overshoot, delay) ==
    /\ hw' = turn_wheels_straight(Begin(hw), overshoot, delay)
    /\ last' = Op("turn_wheels_straight", 0, 0, 0, overshoot, delay)
    /\ UNCHANGED <<last_drive, ctl_vars, conv_vars>>

StopMotors ==
    /\ hw' = stop_motors(Begin(hw))
    /\ last' = Op("stop_motors", 0, 0, 0, 0, 0)
    /\ UNCHANGED <<last_drive, ctl_vars, conv_vars>>

ApplyControls(speed, steer, direction) ==
    /\ hw' = apply_controls(Begin(hw), speed, steer, direction)
    /\ last' = Op("apply_controls", speed, steer, direction, 0, 0)
    /\ last_drive' = IF direction \in {-1, 1} THEN direction ELSE last_drive
    /\ UNCHANGED <<ctl_vars, conv_vars>>

Next ==
    \/ \E steer \in Steers : TurnWheels(steer)
    \/ \E o \in Overshoots, d \in Delays : TurnWheelsStraight(o, d)
    \/ StopMotors
    \/ \E speed \in Speeds, steer \in Steers, direction \in Directions :
          ApplyControls(speed, steer, direction)

(***************************************************************************)
(* Exact rationals <<n, d>> with d > 0, in lowest terms.                   *)
(***************************************************************************)
RECURSIVE GCD(_, _)
GCD(a, b) == IF b = 0 THEN a ELSE GCD(b, a % b)

Rat(n, d) ==
    LET g == GCD(Abs(n), Abs(d))
        s == IF d < 0 THEN -1 ELSE 1
    IN  <<(s * n) \div g, (s * d) \div g>>

Whole(n) == <<n, 1>>
RAdd(p, q) == Rat(p[1] * q[2] + q[1] * p[2], p[2] * q[2])
RSub(p, q) == Rat(p[1] * q[2] - q[1] * p[2], p[2] * q[2])
RMul(p, q) == Rat(p[1] * q[1], p[2] * q[2])
RAbs(p) == <<Abs(p[1]), p[2]>>
RIsZero(p) == p[1] = 0

\* The outcome of a call: a returned value, or the exception it raised.
Ok(v) == [err |-> "none", val |-> v]
Raise(e) == [err |-> e, val |-> Whole(0)]

\* Python's true division.
RDiv(p, q) ==
    IF RIsZero(q) THEN Raise("ZeroDivisionError")
    ELSE Ok(Rat(p[1] * q[2], p[2] * q[1]))

(***************************************************************************)
(* myPID (module my_pid): the PID loop.                                    *)
(***************************************************************************)
myPID(Kp, Ki, Kd) ==
    [Kp |-> Kp, Ki |-> Ki, Kd |-> Kd,
     integral |-> Whole(0), prev_error |-> Whole(0)]

\* input(error, dt): the loop after the call, and the correction returned.
pid_state(pid, error, dt) ==
    [pid EXCEPT !.integral = IF RIsZero(dt) THEN @ ELSE RAdd(@, RMul(error, dt)),
                !.prev_error = error]

pid_output(pid, error, dt) ==
    IF RIsZero(dt)
    THEN RMul(pid.Kp, error)
    ELSE RAdd(RAdd(RMul(pid.Kp, error),
                   RMul(pid.Ki, RAdd(pid.integral, RMul(error, dt)))),
              RMul(pid.Kd, RDiv(RSub(error, pid.prev_error), dt).val))

(***************************************************************************)
(* MyPicarController.                                                      *)
(***************************************************************************)
MyPicarController(kpr, kpa, kpb, kdr, kda, kdb, kir, kia, kib) ==
    [rho_controller   |-> myPID(kpr, kir, kdr),
     alpha_controller |-> myPID(kpa, kia, kda),
     beta_controller  |-> myPID(kpb, kib, kdb)]

\* SPEED(rho, dt): the controller after the call, and the value returned.
SPEED_state(c, rho, dt) ==
    [c EXCEPT !.rho_controller = pid_state(@, rho, dt)]

SPEED(c, rho, dt) == Ok(pid_output(c.rho_controller, rho, dt))

\* STEER(speed, alpha, beta, L, dt): both loops are stepped before the
\* quotient is formed.
STEER_state(c, speed, alpha, beta, L, dt) ==
    [c EXCEPT !.alpha_controller = pid_state(@, alpha, dt),
              !.beta_controller  = pid_state(@, beta, dt)]

\* atan is applied to the quotient dh*L/s and its value, which lies strictly
\* between -pi/2 and pi/2, is left as it is by within_pi.  The returned
\* angle is represented by its tangent: it is zero exactly when the
\* quotient is.
STEER(c, speed, alpha, beta, L, dt) ==
    LET a  == pid_output(c.alpha_controller, alpha, dt)
        b  == pid_output(c.beta_controller, beta, dt)
        dh == RAdd(a, b)
        s  == RAbs(speed)
    IN  RDiv(RMul(dh, L), s)

(***************************************************************************)
(* Operations of the controller.  ctl_last records the call just made, its *)
(* outcome and the number of calls made so far.                            *)
(***************************************************************************)
Gains == {Whole(0), Whole(1)}
Errors == {Whole(-1), Whole(0), Whole(1)}
Rhos == {Whole(0), Whole(1), <<21, 5>>}
CtlSpeeds == {Whole(-1), Whole(0), Whole(2)}
Lengths == {Whole(1), Whole(2)}
Dts == {Whole(1), Whole(2)}

CtlOp(name, speed, alpha, beta, L, dt, out, n) ==
    [name |-> name, speed |-> speed, alpha |-> alpha, beta |-> beta,
     L |-> L, dt |-> dt, err |-> out.err, val |-> out.val, n |-> n]

CtlInit ==
    /\ \E kpa \in Gains, kpb \in Gains, kda \in Gains :
          ctl = MyPicarController(Whole(1), kpa, kpb, Whole(0), kda, Whole(0),
                                  Whole(0), Whole(0), Whole(0))
    /\ ctl_last = CtlOp("init", Whole(0), Whole(0), Whole(0), Whole(0),
                        Whole(0), Ok(Whole(0)), 0)

Speed(rho, dt) ==
    /\ ctl_last.n < MaxCalls
    /\ ctl' = SPEED_state(ctl, rho, dt)
    /\ ctl_last' = CtlOp("SPEED", rho, Whole(0), Whole(0), Whole(0), dt,
                         SPEED(ctl, rho, dt), ctl_last.n + 1)
    /\ UNCHANGED <<hw_vars, conv_vars>>

Steer(speed, alpha, beta, L, dt) ==
    /\ ctl_last.n < MaxCalls
    /\ ctl' = STEER_state(ctl, speed, alpha, beta, L, dt)
    /\ ctl_last' = CtlOp("STEER", speed, alpha, beta, L, dt,
                         STEER(ctl, speed, alpha, beta, L, dt), ctl_last.n + 1)
    /\ UNCHANGED <<hw_vars, conv_vars>>

NextCtl ==
    \/ \E rho \in Rhos, dt \in Dts : Speed(rho, dt)
    \/ \E speed \in CtlSpeeds, alpha \in Errors, beta \in Errors,
          L \in Lengths, dt \in Dts : Steer(speed, alpha, beta, L, dt)

(***************************************************************************)
(* PicarUnitConverter.                                                     *)
(***************************************************************************)
PicarUnitConverter(speed_slope, angle_slope, time_slope, speed_intercept, angle_intercept) ==
    [world_speed_scale  |-> speed_slope,
     world_angle_scale  |-> angle_slope,
     world_time_scale   |-> time_slope,
     world_speed_offset |-> speed_intercept,
     world_angle_offset |-> angle_intercept]

speed_picar2world(c, picar_speed) ==
    Ok(RAdd(RMul(c.world_speed_scale, picar_speed), c.world_speed_offset))

angle_picar2world(c, picar_angle) ==
    Ok(RAdd(RMul(c.world_angle_scale, picar_angle), c.world_angle_offset))

time_picar2world(c, picar_time) == Ok(RMul(c.world_time_scale, picar_time))

\* The body names speed_picar2world without self: no such global exists,
\* and the lookup raises before self.time_scale is read.
length_picar2world(c, picar_length) == Raise("NameError")

speed_world2picar(c, world_speed) ==
    RDiv(RSub(world_speed, c.world_speed_offset), c.world_speed_scale)

angle_world2picar(c, world_angle) ==
    RDiv(RSub(world_angle, c.world_angle_offset), c.world_angle_scale)

time_world2picar(c, world_time) == RDiv(world_time, c.world_time_scale)

\* As length_picar2world: speed_world2picar is named without self.
length_world2picar(c, world_length) == Raise("NameError")

Quantities == {"speed", "angle", "time", "length"}

picar2world(c, q, x) ==
    CASE q = "speed"  -> speed_picar2world(c, x)
      [] q = "angle"  -> angle_picar2world(c, x)
      [] q = "time"   -> time_picar2world(c, x)
      [] q = "length" -> length_picar2world(c, x)

world2picar(c, q, x) ==
    CASE q = "speed"  -> speed_world2picar(c, x)
      [] q = "angle"  -> angle_world2picar(c, x)
      [] q = "time"   -> time_world2picar(c, x)
      [] q = "length" -> length_world2picar(c, x)

\* One conversion followed by the opposite one; an exception raised by the
\* first ends the round trip.
picar2world2picar(c, q, x) ==
    LET w == picar2world(c, q, x)
    IN  IF w.err # "none" THEN w ELSE world2picar(c, q, w.val)

world2picar2world(c, q, x) ==
    LET p == world2picar(c, q, x)
    IN  IF p.err # "none" THEN p ELSE picar2world(c, q, p.val)

(***************************************************************************)
(* Operations of the converter.  conv_last records the call just made and  *)
(* its outcome.                                                            *)
(***************************************************************************)
SpeedScales == {Whole(0), Whole(1), Whole(2), <<1, 2>>}
AngleScales == {Whole(0), Whole(-1), Whole(2)}
TimeScales == {Whole(0), Whole(1), Whole(2)}
SpeedOffsets == {Whole(0), Whole(1), <<-1, 2>>}
AngleOffsets == {Whole(0), Whole(1)}
Values == {Whole(-2), Whole(0), Whole(1), Whole(3), <<1, 2>>}

ConvOp(name, q, x, out) ==
    [name |-> name, q |-> q, x |-> x, err |-> out.err, val |-> out.val]

ConvInit ==
    /\ \E ss \in SpeedScales, as \in AngleScales, ts \in TimeScales,
          so \in SpeedOffsets, ao \in AngleOffsets :
          conv = PicarUnitConverter(ss, as, ts, so, ao)
    /\ conv_last = ConvOp("init", "none", Whole(0), Ok(Whole(0)))

ToWorld(q, x) ==
    /\ conv_last' = ConvOp("picar2world", q, x, picar2world(conv, q, x))
    /\ UNCHANGED <<conv, hw_vars, ctl_vars>>

ToPicar(q, x) ==
    /\ conv_last' = ConvOp("world2picar", q, x, world2picar(conv, q, x))
    /\ UNCHANGED <<conv, hw_vars, ctl_vars>>

ToWorldAndBack(q, x) ==
    /\ conv_last' = ConvOp("picar2world2picar", q, x,
                           picar2world2picar(conv, q, x))
    /\ UNCHANGED <<conv, hw_vars, ctl_vars>>

ToPicarAndBack(q, x) ==
    /\ conv_last' = ConvOp("world2picar2world", q, x,
                           world2picar2world(conv, q, x))
    /\ UNCHANGED <<conv, hw_vars, ctl_vars>>

NextConv ==
    \/ \E q \in Quantities, x \in Values : ToWorld(q, x)
    \/ \E q \in Quantities, x \in Values : ToPicar(q, x)
    \/ \E q \in Quantities, x \in Values : ToWorldAndBack(q, x)
    \/ \E q \in Quantities, x \in Values : ToPicarAndBack(q, x)

(***************************************************************************)
(* Specifications: one per component; the other components stay as         *)
(* constructed.                                                            *)
(***************************************************************************)
HwIdle ==
    /\ hw = init(90 * Den, "forward", default_max_turn * Den)
    /\ last = Op("init", 0, 0, 0, 0, 0)
    /\ last_drive = 0

CtlIdle ==
    /\ ctl = MyPicarController(Whole(1), Whole(0), Whole(0), Whole(0),
                               Whole(0), Whole(0), Whole(0), Whole(0), Whole(0))
    /\ ctl_last = CtlOp("init", Whole(0), Whole(0), Whole(0), Whole(0),
                        Whole(0), Ok(Whole(0)), 0)

ConvIdle ==
    /\ conv = PicarUnitConverter(Whole(1), Whole(1), Whole(1), Whole(0), Whole(0))
    /\ conv_last = ConvOp("init", "none", Whole(0), Ok(Whole(0)))

Init == HwInit /\ CtlIdle /\ ConvIdle

Spec == Init /\ [][Next]_vars

InitCtl == HwIdle /\ CtlInit /\ ConvIdle

SpecCtl == InitCtl /\ [][NextCtl]_vars

InitConv == HwIdle /\ CtlIdle /\ ConvInit

SpecConv == InitConv /\ [][NextConv]_vars

(***************************************************************************)
(* Properties of the dispatcher (specification Spec).                      *)
(***************************************************************************)
Count(calls, f) == Cardinality({i \in DOMAIN calls : calls[i].f = f})

Only(calls, fs) == SelectSeq(calls, LAMBDA c : c.f \in fs)

Homing(overshoot, delay, straight) ==
    <<Call("turn", overshoot + straight), Call("wait", delay),
      Call("turn", -overshoot + straight), Call("wait", delay),
      Call("turn_straight", 0)>>

Applied == last.name = "apply_controls"

\* C1: apply_controls with a direction outside {-1, 0, 1} absorbs the fault:
\* it issues a backend stop, issues no forward and no backward, does not
\* raise, and a following apply_controls with a valid direction is
\* dispatched without raising.
C1_InvalidDirectionAbsorbed ==
    (Applied /\ last.direction \notin ValidDirections) =>
        /\ hw.raised = "none"
        /\ Count(hw.calls, "stop") >= 1
        /\ Count(hw.calls, "forward") = 0
        /\ Count(hw.calls, "backward") = 0
        /\ \A sp \in Speeds, st \in Steers, d \in ValidDirections :
              LET h == apply_controls(Begin(hw), sp, st, d)
              IN  h.raised = "none" /\ h.calls # <<>>

\* C2: with a valid direction, steering is dispatched on
\* signed_steer = direction * steer: the homing routine when it is 0,
\* otherwise one turn that receives signed_steer + straight_offset.
C2_SignedSteerDispatch ==
    (Applied /\ last.direction \in ValidDirections) =>
        LET signed_steer == last.direction * last.steer
            steering == Only(hw.calls, {"turn", "wait", "turn_straight"})
        IN  IF signed_steer = 0
            THEN steering = Homing(default_overshoot * Den, default_delay_ms,
                                   hw.straight_angle)
            ELSE steering = <<Call("turn", signed_steer + hw.straight_angle)>>

\* C6: with a valid direction and a nonzero steer, a speed whose magnitude
\* truncates to 0 gives exactly one backend stop and no set_speed; any
\* other speed gives one set_speed of the truncated magnitude and no stop.
C6_ZeroSpeedHalt ==
    (Applied /\ last.direction \in ValidDirections /\ last.steer # 0) =>
        IF Abs(last.speed) < Den
        THEN /\ Count(hw.calls, "stop") = 1
             /\ Count(hw.calls, "set_speed") = 0
        ELSE /\ Count(hw.calls, "stop") = 0
             /\ Only(hw.calls, {"set_speed"})
                   = <<Call("set_speed", Abs(last.speed) \div Den)>>

C6_Witness ==
    /\ Applied /\ last.direction \in ValidDirections /\ last.steer # 0
    /\ last.speed # 0 /\ Abs(last.speed) < Den
    /\ Count(hw.calls, "stop") = 1

\* C7: within one apply_controls call, a forward or backward call to the
\* backend comes before the set_speed or stop call of that same call.
C7_DirectionBeforeSpeed ==
    Applied =>
        \A i \in DOMAIN hw.calls, j \in DOMAIN hw.calls :
            (hw.calls[i].f \in {"forward", "backward"}
               /\ hw.calls[j].f \in {"set_speed", "stop"}) => i < j

C7_Witness ==
    /\ Applied /\ last.direction = -1
    /\ Count(hw.calls, "backward") = 1
    /\ Count(hw.calls, "set_speed") = 1

\* C8: turn_wheels_straight(overshoot, delay) issues exactly
\* turn(+overshoot + straight_offset), wait, turn(-overshoot +
\* straight_offset), wait, turn_straight and leaves the steering state 0;
\* invoked again from the state it leaves, it issues the same sequence and
\* again leaves the steering state 0.
C8_HomingSequence ==
    last.name = "turn_wheels_straight" =>
        /\ hw.calls = Homing(last.overshoot, last.delay, hw.straight_angle)
        /\ hw.steering = <<0>>
        /\ LET again == turn_wheels_straight(Begin(hw), last.overshoot,
                                             last.delay)
           IN  again.calls = hw.calls /\ again.steering = <<0>>

C8_Witness ==
    /\ last.name = "turn_wheels_straight"
    /\ last.overshoot = default_overshoot * Den
    /\ Len(hw.calls) = 5
    /\ hw.calls[3] = Call("turn", hw.straight_angle - default_overshoot * Den)
    /\ hw.steering = <<0>>

\* C9: stop_motors issues exactly one backend stop and no other backend
\* call or wait, and the backend's steering angle and drive direction are
\* after the call what they were before it.
C9_StopMotorsOnlyStops ==
    [][last'.name = "stop_motors" =>
          /\ hw'.calls = <<Call("stop", 0)>>
          /\ hw'.fw_angle = hw.fw_angle
          /\ hw'.bw_dir = hw.bw_dir
          /\ hw'.raised = "none"]_vars

C9_Witness ==
    /\ last.name = "stop_motors"
    /\ hw.calls = <<Call("stop", 0)>>
    /\ hw.fw_angle # hw.straight_angle
    /\ hw.bw_dir = "backward"

\* C10: the backend's drive direction is that of the most recent
\* apply_controls call whose direction was 1 or -1, and forward when there
\* has been none.
C10_DriveDirection ==
    hw.bw_dir = IF last_drive = -1 THEN "backward" ELSE "forward"

C10_Witness ==
    /\ Applied /\ last.direction = 0
    /\ last_drive = -1
    /\ hw.bw_dir = "backward"

(***************************************************************************)
(* Properties of the controller (specification SpecCtl).                   *)
(***************************************************************************)
\* C3: STEER called with speed = 0 returns zero steering and raises no
\* division-by-zero fault, whatever alpha, beta, L and dt are.
C3_ZeroSpeedSteerHandled ==
    (ctl_last.name = "STEER" /\ RIsZero(ctl_last.speed)) =>
        ctl_last.err = "none" /\ RIsZero(ctl_last.val)

(***************************************************************************)
(* Properties of the converter (specification SpecConv).                   *)
(***************************************************************************)
ScalesNonzero ==
    /\ ~RIsZero(conv.world_speed_scale)
    /\ ~RIsZero(conv.world_angle_scale)
    /\ ~RIsZero(conv.world_time_scale)

\* C4: when every scale is nonzero, converting x to world units and back,
\* or to device units and back, returns x, for speed, angle, time and
\* length.
C4_RoundTrip ==
    (ScalesNonzero
       /\ conv_last.name \in {"picar2world2picar", "world2picar2world"}) =>
        conv_last.err = "none" /\ conv_last.val = conv_last.x

\* C5: length_picar2world(l) returns the instance's speed_picar2world(l)
\* times its time scale, and length_world2picar(l) the instance's
\* speed_world2picar(l) divided by its time scale; the call completes.
C5_LengthFromSpeedAndTime ==
    /\ (conv_last.name = "picar2world" /\ conv_last.q = "length") =>
          /\ conv_last.err = "none"
          /\ conv_last.val = RMul(speed_picar2world(conv, conv_last.x).val,
                                  conv.world_time_scale)
    /\ (ScalesNonzero /\ conv_last.name = "world2picar"
          /\ conv_last.q = "length") =>
          /\ conv_last.err = "none"
          /\ Ok(conv_last.val) = RDiv(speed_world2picar(conv, conv_last.x).val,
                                      conv.world_time_scale)

====
